---- MODULE Spec2Model ----
(***************************************************************************)
(* Traffic simulation with OpenMP (simulacion_paralela.c): main validates  *)
(* the command line, allocates and initialises the vehicles and the        *)
(* traffic lights, and simular_dinamico runs the ticks, each tick either   *)
(* as two concurrent sections or sequentially.                             *)
(*                                                                         *)
(* A "#pragma omp parallel for" is modelled by one step per iteration,     *)
(* taken in any order; the two "#pragma omp section"s of a tick interleave *)
(* their iterations freely; the implicit barrier that ends a parallel      *)
(* region is the guard of the step that follows it.                        *)
(***************************************************************************)
EXTENDS Integers, Sequences, FiniteSets, TLC

\* ---------------------------------------------------------------- bounds
MaxVeh == 2
MaxSem == 2
MaxIters == 3
MaxRoad == 7
MaxSeed == 3
MaxPob == 20

\* ------------------------------------------------------ program constants
ROJO == 0
VERDE == 1
AMARILLO == 2

\* The content of malloc'ed memory that has not been written yet.  The
\* program never reads it.
Indet == -1

\* A pointer that holds no array (before malloc, after free).
NoArray == << >>

VARIABLES
    argc, argv,             \* the command line, argv as atoi/strtoul read it
    pc, exit_code,          \* position in main / simular_dinamico, and main's result
    n_veh, n_sem, iters, road, delay, ciclo, usar_secciones, seed,  \* main's locals
    veh, sem,               \* the two arrays of main
    rand_state, v_etapa,    \* the C library's generator; progress of each init iteration
    i, hilos, snap,         \* simular_dinamico: tick index, worker count, snapshot
    sem_hecho, veh_hecho,   \* iterations of this tick's two loops that have run
    pre_veh, pre_sem,       \* history: veh and sem as they were when the tick began
    cnt_act, cnt_mov,       \* history: how often each light was updated, each vehicle moved
    quietos                 \* history: for how many ticks in a row each vehicle has kept its cell

vars == << argc, argv, pc, exit_code, n_veh, n_sem, iters, road, delay, ciclo,
           usar_secciones, seed, veh, sem, rand_state, v_etapa, i, hilos, snap,
           sem_hecho, veh_hecho, pre_veh, pre_sem, cnt_act, cnt_mov,
           quietos >>

contadores == << cnt_act, cnt_mov, quietos >>
config == << n_veh, n_sem, iters, road, delay, ciclo, usar_secciones, seed >>
cmdline == << argc, argv >>

\* ---------------------------------------------------------------- helpers

\* C's % on int: the remainder has the sign of the dividend.
CRem(x, m) == IF x >= 0 THEN x % m ELSE -((-x) % m)

\* C's / on int: the quotient is truncated towards zero.
CDiv(x, m) == IF x >= 0 THEN x \div m ELSE -((-x) \div m)

mod_pos_sin_ajuste(x, m) == x

mod_pos(x, m) ==
    LET r == CRem(x, m)
    IN  IF r < 0 THEN r + m ELSE r

\* srand / rand of the C library: one hidden state, every draw advances it.
\* A small full-period linear congruential generator stands for it.
Srand(s) == s % 8

Rand(st) == (st * 5 + 3) % 8

Espacio_sin_guarda(road_len, n) == CDiv(road_len, n)

Espacio(road_len, n) == IF road_len > n THEN CDiv(road_len, n) ELSE 1

Indices(n) == 0 .. (n - 1)

VehIndet == [id |-> Indet, pos |-> Indet, vel_max |-> Indet]

SemIndet == [id |-> Indet, pos |-> Indet, estado |-> Indet, t_en_estado |-> Indet,
             dur_rojo |-> Indet, dur_verde |-> Indet, dur_amarillo |-> Indet]

\* (int)(ciclo_total * 0.5) and (int)(ciclo_total * 0.2): the product is a
\* double at or just above ciclo_total/2, ciclo_total/5 in magnitude, and the
\* cast truncates towards zero.
Mitad(c) == CDiv(c, 2)

Quinto(c) == CDiv(c, 5)

Clamp1(d) == IF d < 1 THEN 1 ELSE d

SemaforoInicial_rojo_tras_ajuste(j, n, road_len, ciclo_total) ==
    LET espacio == Espacio(road_len, n)
        verde == Clamp1(Mitad(ciclo_total))
        amarillo == Clamp1(Quinto(ciclo_total))
    IN  [id |-> j,
         pos |-> mod_pos(j * espacio, road_len),
         estado |-> IF j % 2 = 0 THEN VERDE ELSE ROJO,
         t_en_estado |-> 0,
         dur_rojo |-> Clamp1(ciclo_total - verde - amarillo),
         dur_verde |-> verde,
         dur_amarillo |-> amarillo]

SemaforoInicial(j, n, road_len, ciclo_total) ==
    LET espacio == Espacio(road_len, n)
        verde == Mitad(ciclo_total)
        amarillo == Quinto(ciclo_total)
        rojo == ciclo_total - verde - amarillo
    IN  [id |-> j,
         pos |-> mod_pos(j * espacio, road_len),
         estado |-> IF j % 2 = 0 THEN VERDE ELSE ROJO,
         t_en_estado |-> 0,
         dur_rojo |-> Clamp1(rojo),
         dur_verde |-> Clamp1(verde),
         dur_amarillo |-> Clamp1(amarillo)]

\* ------------------------------------------------------ light-state engine

siguiente_estado_rojo_a_amarillo(e) ==
    IF e = VERDE THEN AMARILLO ELSE IF e = AMARILLO THEN ROJO ELSE AMARILLO

siguiente_estado_salta(e) ==
    IF e = VERDE THEN ROJO ELSE IF e = AMARILLO THEN VERDE ELSE AMARILLO

siguiente_estado(e) ==
    CASE e = VERDE -> AMARILLO
      [] e = AMARILLO -> ROJO
      [] e = ROJO -> VERDE
      [] OTHER -> ROJO

Limite_siempre_verde(s) == s.dur_verde

Limite(s) ==
    CASE s.estado = VERDE -> s.dur_verde
      [] s.estado = AMARILLO -> s.dur_amarillo
      [] s.estado = ROJO -> s.dur_rojo
      [] OTHER -> 1

ActualizarUno_estricto(s) ==
    LET t == s.t_en_estado + 1
    IN  IF t > Limite(s)
        THEN [s EXCEPT !.estado = siguiente_estado(s.estado), !.t_en_estado = 0]
        ELSE [s EXCEPT !.t_en_estado = t]

\* One iteration of the loop of actualizar_semaforos.
ActualizarUno(s) ==
    LET t == s.t_en_estado + 1
    IN  IF t >= Limite(s)
        THEN [s EXCEPT !.estado = siguiente_estado(s.estado), !.t_en_estado = 0]
        ELSE [s EXCEPT !.t_en_estado = t]

\* -------------------------------------------------------- movement engine

\* The inner for of mover_vehiculos: the first j with sem_snapshot[j].pos ==
\* destino, where the loop breaks; -1 when the loop runs to its end.
RECURSIVE PrimerSemaforoEn(_, _, _, _)
PrimerSemaforoEn(s, n, destino, j) ==
    IF j >= n THEN -1
    ELSE IF s[j].pos = destino THEN j
    ELSE PrimerSemaforoEn(s, n, destino, j + 1)

puede_mover_ultimo(s, n, destino) ==
    LET en == {j \in 0 .. (n - 1) : s[j].pos = destino}
    IN  IF en = {} THEN TRUE
        ELSE LET j == CHOOSE x \in en : \A y \in en : y <= x
             IN  ~(s[j].estado = ROJO \/ s[j].estado = AMARILLO)

puede_mover_solo_rojo(s, n, destino) ==
    LET j == PrimerSemaforoEn(s, n, destino, 0)
    IN  IF j = -1 THEN TRUE ELSE ~(s[j].estado = ROJO)

puede_mover(s, n, destino) ==
    LET j == PrimerSemaforoEn(s, n, destino, 0)
    IN  IF j = -1 THEN TRUE
        ELSE ~(s[j].estado = ROJO \/ s[j].estado = AMARILLO)

\* One iteration of the outer loop of mover_vehiculos: the new v[i].pos.
MoverUno(v, s, n, road_len) ==
    LET destino == mod_pos(v.pos + v.vel_max, road_len)
    IN  IF puede_mover(s, n, destino) THEN destino ELSE v.pos

\* --------------------------------------------------- concurrency sizing

Hilos_piso(nv, ns) ==
    LET h == CDiv(nv, 8) + CDiv(ns, 4)
    IN  IF h < 2 THEN 2 ELSE h

Hilos(nv, ns) ==
    LET h == CDiv(nv + 7, 8) + CDiv(ns + 3, 4)
    IN  IF h < 2 THEN 2 ELSE h

\* ------------------------------------------------------------------ main

ConfigInvalida_y_ciclo(nv, ns, it, rd) ==
    nv <= 0 \/ ns <= 0 \/ it <= 0 \/ rd <= 5 \/ ciclo <= 0

ConfigInvalida_sin_road(nv, ns, it, rd) == nv <= 0 \/ ns <= 0 \/ it <= 0

ConfigInvalida(nv, ns, it, rd) == nv <= 0 \/ ns <= 0 \/ it <= 0 \/ rd <= 5

MainUso ==
    /\ pc = "main"
    /\ argc < 5
    /\ pc' = "exit"
    /\ exit_code' = 1
    /\ UNCHANGED << contadores, cmdline, config, veh, sem, rand_state, v_etapa, i, hilos, snap,
                    sem_hecho, veh_hecho, pre_veh, pre_sem >>

MainParse ==
    /\ pc = "main"
    /\ argc >= 5
    /\ n_veh' = argv.veh
    /\ n_sem' = argv.sem
    /\ iters' = argv.iters
    /\ road' = argv.road
    /\ delay' = IF argc > 5 THEN argv.delay ELSE 0
    /\ ciclo' = IF argc > 6 THEN argv.ciclo ELSE 9
    /\ usar_secciones' = IF argc > 7 THEN argv.secc ELSE 1
    /\ seed' \in IF argc > 8 THEN {argv.seed} ELSE 0 .. MaxSeed
    /\ pc' = "validar"
    /\ UNCHANGED << contadores, cmdline, exit_code, veh, sem, rand_state, v_etapa, i, hilos, snap,
                    sem_hecho, veh_hecho, pre_veh, pre_sem >>

MainRechaza ==
    /\ pc = "validar"
    /\ ConfigInvalida(n_veh, n_sem, iters, road)
    /\ pc' = "exit"
    /\ exit_code' = 1
    /\ UNCHANGED << contadores, cmdline, config, veh, sem, rand_state, v_etapa, i, hilos, snap,
                    sem_hecho, veh_hecho, pre_veh, pre_sem >>

MainMalloc ==
    /\ pc = "validar"
    /\ ~ConfigInvalida(n_veh, n_sem, iters, road)
    /\ veh' = [k \in Indices(n_veh) |-> VehIndet]
    /\ sem' = [j \in Indices(n_sem) |-> SemIndet]
    /\ cnt_act' = [j \in Indices(n_sem) |-> 0]
    /\ cnt_mov' = [k \in Indices(n_veh) |-> 0]
    /\ quietos' = [k \in Indices(n_veh) |-> 0]
    /\ pc' = "inicializar_vehiculos"
    /\ UNCHANGED << cmdline, config, exit_code, rand_state, v_etapa, i, hilos, snap,
                    sem_hecho, veh_hecho, pre_veh, pre_sem >>

\* --------------------------------------------------------- initialisation

InicializarVehiculosSrand ==
    /\ pc = "inicializar_vehiculos"
    /\ rand_state' = Srand(seed)
    /\ v_etapa' = [k \in Indices(n_veh) |-> 0]
    /\ pc' = "init_veh_for"
    /\ UNCHANGED << contadores, cmdline, config, exit_code, veh, sem, i, hilos, snap,
                    sem_hecho, veh_hecho, pre_veh, pre_sem >>

\* First half of iteration k: the jitter draw, v[k].id and v[k].pos.
VehJitter(k) ==
    /\ pc = "init_veh_for"
    /\ v_etapa[k] = 0
    /\ LET espacio == Espacio(road, n_veh)
           r == Rand(rand_state)
           jitter == IF espacio > 1 THEN r % espacio ELSE 0
       IN  /\ rand_state' = IF espacio > 1 THEN r ELSE rand_state
           /\ veh' = [veh EXCEPT ![k].id = k,
                                 ![k].pos = mod_pos(k * espacio + jitter, road)]
    /\ v_etapa' = [v_etapa EXCEPT ![k] = 1]
    /\ UNCHANGED << contadores, cmdline, config, pc, exit_code, sem, i, hilos, snap,
                    sem_hecho, veh_hecho, pre_veh, pre_sem >>

\* Second half of iteration k: the speed draw and v[k].vel_max.
VehVel(k) ==
    /\ pc = "init_veh_for"
    /\ v_etapa[k] = 1
    /\ LET r == Rand(rand_state)
       IN  /\ rand_state' = r
           /\ veh' = [veh EXCEPT ![k].vel_max = 1 + (r % 2)]
    /\ v_etapa' = [v_etapa EXCEPT ![k] = 2]
    /\ UNCHANGED << contadores, cmdline, config, pc, exit_code, sem, i, hilos, snap,
                    sem_hecho, veh_hecho, pre_veh, pre_sem >>

InicializarVehiculosFin ==
    /\ pc = "init_veh_for"
    /\ \A k \in Indices(n_veh) : v_etapa[k] = 2
    /\ pc' = "inicializar_semaforos"
    /\ UNCHANGED << contadores, cmdline, config, exit_code, veh, sem, rand_state, v_etapa, i, hilos,
                    snap, sem_hecho, veh_hecho, pre_veh, pre_sem >>

\* The iterations of inicializar_semaforos write disjoint records from the
\* arguments alone; the loop is one step.  main then calls simular_dinamico.
InicializarSemaforos ==
    /\ pc = "inicializar_semaforos"
    /\ sem' = [j \in Indices(n_sem) |-> SemaforoInicial(j, n_sem, road, ciclo)]
    /\ i' = 0
    /\ pc' = "loop"
    /\ UNCHANGED << contadores, cmdline, config, exit_code, veh, rand_state, v_etapa, hilos, snap,
                    sem_hecho, veh_hecho, pre_veh, pre_sem >>

\* ------------------------------------------------------- simular_dinamico

QuedanTicks_menos_uno == i < iters - 1

\* The test of the for loop over the ticks.
QuedanTicks == i < iters

\* The for loop's test fails: simular_dinamico returns, main frees both
\* arrays and returns 0.
LoopFin ==
    /\ pc = "loop"
    /\ ~QuedanTicks
    /\ veh' = NoArray
    /\ sem' = NoArray
    /\ pc' = "exit"
    /\ exit_code' = 0
    /\ UNCHANGED << contadores, cmdline, config, rand_state, v_etapa, i, hilos, snap,
                    sem_hecho, veh_hecho, pre_veh, pre_sem >>

\* The head of a tick: the worker count.  pre_veh and pre_sem record the
\* arrays as the tick finds them.
AjustarHilos ==
    /\ pc = "loop"
    /\ QuedanTicks
    /\ hilos' = Hilos(n_veh, n_sem)
    /\ pre_veh' = veh
    /\ pre_sem' = sem
    /\ pc' = "ajustado"
    /\ UNCHANGED << contadores, cmdline, config, exit_code, veh, sem, rand_state, v_etapa, i, snap,
                    sem_hecho, veh_hecho >>

\* usar_secciones: the snapshot is copied, then the two sections start.
SeccionesSnapshot ==
    /\ pc = "ajustado"
    /\ usar_secciones # 0
    /\ snap' = sem
    /\ sem_hecho' = {}
    /\ veh_hecho' = {}
    /\ pc' = "sections"
    /\ UNCHANGED << contadores, cmdline, config, exit_code, veh, sem, rand_state, v_etapa, i, hilos,
                    pre_veh, pre_sem >>

\* else: actualizar_semaforos is called first.
SecuencialInicio ==
    /\ pc = "ajustado"
    /\ usar_secciones = 0
    /\ sem_hecho' = {}
    /\ veh_hecho' = {}
    /\ pc' = "seq_act"
    /\ UNCHANGED << contadores, cmdline, config, exit_code, veh, sem, rand_state, v_etapa, i, hilos,
                    snap, pre_veh, pre_sem >>

ActualizarSemaforo_contador_del_primero(j) ==
    /\ pc \in {"sections", "seq_act"}
    /\ j \notin sem_hecho
    /\ sem' = [sem EXCEPT ![j] = ActualizarUno([sem[j] EXCEPT !.t_en_estado = sem[0].t_en_estado])]
    /\ sem_hecho' = sem_hecho \cup {j}
    /\ cnt_act' = [cnt_act EXCEPT ![j] = @ + 1]
    /\ UNCHANGED << cnt_mov, quietos, cmdline, config, pc, exit_code, veh, rand_state, v_etapa, i, hilos,
                    snap, veh_hecho, pre_veh, pre_sem >>

\* Iteration j of actualizar_semaforos, in a section or in the sequential tick.
ActualizarSemaforo(j) ==
    /\ pc \in {"sections", "seq_act"}
    /\ j \notin sem_hecho
    /\ sem' = [sem EXCEPT ![j] = ActualizarUno(sem[j])]
    /\ sem_hecho' = sem_hecho \cup {j}
    /\ cnt_act' = [cnt_act EXCEPT ![j] = @ + 1]
    /\ UNCHANGED << cnt_mov, quietos, cmdline, config, pc, exit_code, veh, rand_state, v_etapa, i, hilos,
                    snap, veh_hecho, pre_veh, pre_sem >>

OrigenSnapshotSecuencial_previo == pre_sem

\* The array the sequential tick copies into its snapshot.
OrigenSnapshotSecuencial == sem

\* Sequential tick: actualizar_semaforos has returned; malloc and memcpy.
SecuencialSnapshot ==
    /\ pc = "seq_act"
    /\ sem_hecho = Indices(n_sem)
    /\ snap' = OrigenSnapshotSecuencial
    /\ pc' = "seq_mov"
    /\ UNCHANGED << contadores, cmdline, config, exit_code, veh, sem, rand_state, v_etapa, i, hilos,
                    sem_hecho, veh_hecho, pre_veh, pre_sem >>

ArgSnapshot_vivo == sem

\* The array mover_vehiculos is given as sem_snapshot.
ArgSnapshot == snap

MoverVehiculo_y_velocidad(k) ==
    /\ pc \in {"sections", "seq_mov"}
    /\ k \notin veh_hecho
    /\ veh' = [veh EXCEPT ![k].pos = MoverUno(veh[k], ArgSnapshot, n_sem, road),
                          ![k].vel_max = 1]
    /\ veh_hecho' = veh_hecho \cup {k}
    /\ cnt_mov' = [cnt_mov EXCEPT ![k] = @ + 1]
    /\ quietos' = [quietos EXCEPT ![k] = IF veh'[k].pos = veh[k].pos THEN @ + 1 ELSE 0]
    /\ UNCHANGED << cnt_act, cmdline, config, pc, exit_code, sem, rand_state, v_etapa, i, hilos,
                    snap, sem_hecho, pre_veh, pre_sem >>

\* Iteration k of mover_vehiculos, in a section or in the sequential tick.
MoverVehiculo(k) ==
    /\ pc \in {"sections", "seq_mov"}
    /\ k \notin veh_hecho
    /\ veh' = [veh EXCEPT ![k].pos = MoverUno(veh[k], ArgSnapshot, n_sem, road)]
    /\ veh_hecho' = veh_hecho \cup {k}
    /\ cnt_mov' = [cnt_mov EXCEPT ![k] = @ + 1]
    /\ quietos' = [quietos EXCEPT ![k] = IF veh'[k].pos = veh[k].pos THEN @ + 1 ELSE 0]
    /\ UNCHANGED << cnt_act, cmdline, config, pc, exit_code, sem, rand_state, v_etapa, i, hilos,
                    snap, sem_hecho, pre_veh, pre_sem >>

Barrera_sin_semaforos ==
    veh_hecho = Indices(n_veh)

\* The implicit barrier at the end of "parallel sections" (and, in the
\* sequential tick, the return of mover_vehiculos after actualizar_semaforos).
Barrera ==
    /\ sem_hecho = Indices(n_sem)
    /\ veh_hecho = Indices(n_veh)

\* The tail of a tick: free(snap), imprimir_estado, the optional sleep, i++.
FinTick ==
    /\ pc \in {"sections", "seq_mov"}
    /\ Barrera
    /\ snap' = NoArray
    /\ i' = i + 1
    /\ pc' = "loop"
    /\ UNCHANGED << contadores, cmdline, config, exit_code, veh, sem, rand_state, v_etapa, hilos,
                    sem_hecho, veh_hecho, pre_veh, pre_sem >>

\* ------------------------------------------------------- specifications

Delays == {0, 1}
Ciclos == {1, 5}

ArgsAusentes ==
    [veh |-> 0, sem |-> 0, iters |-> 0, road |-> 0, delay |-> 0, ciclo |-> 0,
     secc |-> 0, seed |-> 0]

\* Command lines: too few arguments; the four required ones; all eight.
CmdLines ==
    {<< 4, ArgsAusentes >>}
    \cup { << 5, [ArgsAusentes EXCEPT !.veh = a, !.sem = b, !.iters = c, !.road = d] >> :
             a \in -1 .. MaxVeh, b \in -1 .. MaxSem, c \in 0 .. MaxIters,
             d \in 5 .. MaxRoad }
    \cup { << 9, [veh |-> a, sem |-> b, iters |-> c, road |-> d, delay |-> e,
                  ciclo |-> f, secc |-> g, seed |-> h] >> :
             a \in -1 .. MaxVeh, b \in -1 .. MaxSem, c \in 0 .. MaxIters,
             d \in 5 .. MaxRoad, e \in Delays, f \in Ciclos, g \in {0, 1},
             h \in 0 .. MaxSeed }

\* Command lines with more lights than cells: lights 0 and 7 share cell 0.
CmdLinesSolapadas ==
    { << 9, [veh |-> 1, sem |-> 8, iters |-> 2, road |-> 7, delay |-> 0,
             ciclo |-> 5, secc |-> g, seed |-> h] >> :
             g \in {0, 1}, h \in 0 .. MaxSeed }

InitResto ==
    /\ pc = "main"
    /\ exit_code = -1
    /\ n_veh = 0 /\ n_sem = 0 /\ iters = 0 /\ road = 0
    /\ delay = 0 /\ ciclo = 0 /\ usar_secciones = 0 /\ seed = 0
    /\ veh = NoArray /\ sem = NoArray /\ snap = NoArray
    /\ rand_state = 1
    /\ v_etapa = NoArray
    /\ i = 0 /\ hilos = 0
    /\ sem_hecho = {} /\ veh_hecho = {}
    /\ pre_veh = NoArray /\ pre_sem = NoArray
    /\ cnt_act = NoArray /\ cnt_mov = NoArray /\ quietos = NoArray

Init ==
    /\ \E c \in CmdLines \cup CmdLinesSolapadas : argc = c[1] /\ argv = c[2]
    /\ InitResto

Next ==
    \/ MainUso
    \/ MainParse
    \/ MainRechaza
    \/ MainMalloc
    \/ InicializarVehiculosSrand
    \/ \E k \in Indices(n_veh) : VehJitter(k)
    \/ \E k \in Indices(n_veh) : VehVel(k)
    \/ InicializarVehiculosFin
    \/ InicializarSemaforos
    \/ LoopFin
    \/ AjustarHilos
    \/ SeccionesSnapshot
    \/ SecuencialInicio
    \/ \E j \in Indices(n_sem) : ActualizarSemaforo(j)
    \/ SecuencialSnapshot
    \/ \E k \in Indices(n_veh) : MoverVehiculo(k)
    \/ FinTick

Spec == Init /\ [][Next]_vars

\* ---------------------------------------------------- vocabulary of the claims

Estados == {ROJO, VERDE, AMARILLO}

\* Both arrays are initialised and simular_dinamico is running.
Inicializado == pc \in {"loop", "ajustado", "sections", "seq_act", "seq_mov"}

\* Between the head and the tail of a tick.
EnTick == pc \in {"sections", "seq_act", "seq_mov"}

\* mover_vehiculos is running (or has just run) with the snapshot still held.
Moviendo == pc \in {"sections", "seq_mov"}

\* v[k].pos has been written by inicializar_vehiculos.
PosEscrita(k) ==
    IF pc = "init_veh_for" THEN v_etapa[k] >= 1
    ELSE pc \in {"inicializar_semaforos"} \/ Inicializado

Detiene(e) == e = ROJO \/ e = AMARILLO

\* GREEN -> YELLOW -> RED -> GREEN
SucesorEnCiclo(e) ==
    IF e = VERDE THEN AMARILLO ELSE IF e = AMARILLO THEN ROJO ELSE VERDE

DuracionDe(s) ==
    IF s.estado = VERDE THEN s.dur_verde
    ELSE IF s.estado = AMARILLO THEN s.dur_amarillo
    ELSE s.dur_rojo

\* destination = (position + max_speed) mod road_length, from the pre-tick position
Destino(k) == (pre_veh[k].pos + pre_veh[k].vel_max) % road

SemaforosEn(s, d) == {j \in DOMAIN s : s[j].pos = d}

Minimo(S) == CHOOSE x \in S : \A y \in S : x <= y

\* Some light of s at cell d is RED or YELLOW.
AlgunoDetiene(s, d) == \E j \in SemaforosEn(s, d) : Detiene(s[j].estado)

\* The lowest-index light of s at cell d exists and is RED or YELLOW.
PrimeroDetiene(s, d) ==
    /\ SemaforosEn(s, d) # {}
    /\ Detiene(s[Minimo(SemaforosEn(s, d))].estado)

\* ------------------------------------------------------------------ C1

\* C1: in every reachable state of a run (once inicializar_vehiculos has
\* written it, after initialisation, and during and after every tick, in
\* both modes) every vehicle's position p satisfies 0 <= p < road.
C1_PosicionEnRango ==
    \A k \in DOMAIN veh : PosEscrita(k) => (0 <= veh[k].pos /\ veh[k].pos < road)

\* A tick has ended in which a vehicle went round the end of the road.
C1_Witness ==
    /\ pc = "loop"
    /\ i > 0
    /\ \E k \in DOMAIN veh :
          /\ veh[k].pos < pre_veh[k].pos
          /\ pre_veh[k].pos + pre_veh[k].vel_max >= road

\* ------------------------------------------------------------------ C2

\* C2 as stated: a vehicle that has been moved this tick kept its pre-tick
\* position if the snapshot holds a RED or YELLOW light at its destination,
\* and is at its destination otherwise.
C2_AlgunSemaforo ==
    Moviendo =>
        \A k \in veh_hecho :
            veh[k].pos = IF AlgunoDetiene(snap, Destino(k))
                         THEN pre_veh[k].pos ELSE Destino(k)

\* C2 amended: a vehicle that has been moved this tick kept its pre-tick
\* position if the lowest-index light of the snapshot at its destination is
\* RED or YELLOW, and is at its destination otherwise (no light there, or
\* the lowest-index light there is GREEN).
C2_PrimerSemaforo ==
    Moviendo =>
        \A k \in veh_hecho :
            veh[k].pos = IF PrimeroDetiene(snap, Destino(k))
                         THEN pre_veh[k].pos ELSE Destino(k)

\* A vehicle has been held by a YELLOW light at its destination, and another
\* has moved onto a cell whose light is GREEN.
C2_Witness ==
    /\ Moviendo
    /\ \E k \in veh_hecho :
          /\ PrimeroDetiene(snap, Destino(k))
          /\ snap[Minimo(SemaforosEn(snap, Destino(k)))].estado = AMARILLO
          /\ veh[k].pos = pre_veh[k].pos
    /\ \E k \in veh_hecho :
          /\ SemaforosEn(snap, Destino(k)) # {}
          /\ ~PrimeroDetiene(snap, Destino(k))
          /\ veh[k].pos = Destino(k)

\* ------------------------------------------------------------------ C3

MaxItersLuces == 6
MaxArg == 2
MaxCiclo == 11
MaxItersPeriodo == 11
MaxItersSolapados == 4
MaxItersBloqueo == 8

\* Runs long enough for a light to go round its cycle: one vehicle (or none,
\* which main rejects), every light count, both modes.
CmdLinesLuces ==
    {<< 4, ArgsAusentes >>}
    \cup { << 9, [veh |-> a, sem |-> b, iters |-> c, road |-> d, delay |-> 0,
                  ciclo |-> f, secc |-> g, seed |-> 0] >> :
             a \in {0, 1}, b \in 1 .. MaxSem, c \in 1 .. MaxItersLuces,
             d \in 6 .. MaxRoad, f \in Ciclos \cup {3}, g \in {0, 1} }

InitLuces ==
    /\ \E c \in CmdLinesLuces : argc = c[1] /\ argv = c[2]
    /\ InitResto

\* The threads of a parallel region and main itself always make progress.
SpecLuces == InitLuces /\ [][Next]_vars /\ WF_vars(Next)

\* Calls of actualizar_semaforos that light j still has ahead of it in this run.
Restantes(j) == iters - i - (IF EnTick /\ j \in sem_hecho THEN 1 ELSE 0)

\* Light j is in phase e and the run is long enough for it to see the phase out.
EnFaseConTiempo(j, e) ==
    /\ Inicializado
    /\ j \in DOMAIN sem
    /\ sem[j].estado = e
    /\ Restantes(j) >= DuracionDe(sem[j]) - sem[j].t_en_estado

\* C3: for every light the phase only moves along GREEN -> YELLOW -> RED ->
\* GREEN: over a tick it stays or moves to its one successor in that cycle
\* (no step of the program takes it anywhere else), and no phase is terminal:
\* a light in any phase goes on to the successor of that phase whenever the
\* run has the ticks left for it.
C3_CicloDeFases ==
    /\ [](Inicializado =>
            \A j \in DOMAIN sem :
                /\ sem[j].estado \in Estados
                /\ EnTick => sem[j].estado \in
                       {pre_sem[j].estado, SucesorEnCiclo(pre_sem[j].estado)})
    /\ [][Inicializado /\ Inicializado' =>
            \A j \in DOMAIN sem :
                sem'[j].estado \in {sem[j].estado, SucesorEnCiclo(sem[j].estado)}]_vars
    /\ \A j \in Indices(MaxSem) : \A e \in Estados :
          EnFaseConTiempo(j, e) ~> (j \in DOMAIN sem /\ sem[j].estado = SucesorEnCiclo(e))

\* A light that began GREEN has been YELLOW and RED and is GREEN again,
\* having used all of its RED time.
C3_Witness ==
    /\ EnTick
    /\ \E j \in sem_hecho :
          /\ j % 2 = 0
          /\ pre_sem[j].estado = ROJO
          /\ pre_sem[j].t_en_estado + 1 = pre_sem[j].dur_rojo
          /\ pre_sem[j].dur_rojo > 1
          /\ sem[j].estado = VERDE

\* ------------------------------------------------------------------ C4

\* C4: for every light that actualizar_semaforos has updated in the current
\* tick, t_en_estado is 0 if and only if its phase differs from the phase it
\* had when the tick began; and at every moment of the run
\* 0 <= t_en_estado < the duration of the light's current phase.
C4_ContadorDeFase ==
    Inicializado =>
        \A j \in DOMAIN sem :
            /\ 0 <= sem[j].t_en_estado
            /\ sem[j].t_en_estado < DuracionDe(sem[j])
            /\ (EnTick /\ j \in sem_hecho) =>
                  ((sem[j].t_en_estado = 0) <=> (sem[j].estado # pre_sem[j].estado))

\* In one tick a light has changed phase and another has only counted.
C4_Witness ==
    /\ EnTick
    /\ \E j \in sem_hecho :
          sem[j].t_en_estado = 0 /\ sem[j].estado # pre_sem[j].estado
    /\ \E j \in sem_hecho :
          sem[j].t_en_estado > 0 /\ sem[j].estado = pre_sem[j].estado

\* ------------------------------------------------------------------ C5

\* C5: in the sequential tick nothing of mover_vehiculos happens and no
\* snapshot exists while actualizar_semaforos runs; when mover_vehiculos runs
\* every light has been updated, and the snapshot it reads holds, for every
\* light, the light's current position and phase, which are the ones the
\* tick ends with.
C5_OrdenSecuencial ==
    /\ pc = "seq_act" => (veh_hecho = {} /\ veh = pre_veh /\ snap = NoArray)
    /\ pc = "seq_mov" =>
          /\ sem_hecho = Indices(n_sem)
          /\ DOMAIN snap = DOMAIN sem
          /\ \A j \in DOMAIN sem :
                /\ snap[j].estado = sem[j].estado
                /\ snap[j].pos = sem[j].pos
          /\ \A k \in veh_hecho :
                veh[k].pos = IF PrimeroDetiene(sem, Destino(k))
                             THEN pre_veh[k].pos ELSE Destino(k)

\* In a sequential tick a vehicle has been held by a light that was GREEN
\* when the tick began.
C5_Witness ==
    /\ pc = "seq_mov"
    /\ \E k \in veh_hecho :
          /\ veh[k].pos = pre_veh[k].pos
          /\ PrimeroDetiene(sem, Destino(k))
          /\ ~PrimeroDetiene(pre_sem, Destino(k))

\* ------------------------------------------------------------------ C6

\* C6: in the concurrent tick the snapshot stays what the lights were when
\* the tick began, whatever actualizar_semaforos has written since; every
\* vehicle moved so far was decided from those pre-tick phases; and when both
\* sections are through, the lights and the vehicles are a function of the
\* pre-tick state alone (every light updated once from its pre-tick record,
\* every vehicle moved once against the pre-tick lights).
C6_SnapshotPrevio ==
    pc = "sections" =>
        /\ snap = pre_sem
        /\ \A k \in veh_hecho :
              veh[k].pos = IF PrimeroDetiene(pre_sem, Destino(k))
                           THEN pre_veh[k].pos ELSE Destino(k)
        /\ \A k \in DOMAIN veh \ veh_hecho : veh[k] = pre_veh[k]
        /\ \A j \in DOMAIN sem \ sem_hecho : sem[j] = pre_sem[j]
        /\ \A j \in sem_hecho :
              /\ sem[j].estado \in {pre_sem[j].estado, SucesorEnCiclo(pre_sem[j].estado)}
              /\ sem[j].t_en_estado =
                    IF pre_sem[j].t_en_estado + 1 >= DuracionDe(pre_sem[j])
                    THEN 0 ELSE pre_sem[j].t_en_estado + 1
              /\ (sem[j].estado # pre_sem[j].estado) <=>
                    (pre_sem[j].t_en_estado + 1 >= DuracionDe(pre_sem[j]))

\* In a concurrent tick the light at a vehicle's destination has already
\* changed phase, to one that would decide the move the other way, and the
\* vehicle has been moved.
C6_Witness ==
    /\ pc = "sections"
    /\ \E k \in veh_hecho :
          PrimeroDetiene(sem, Destino(k)) # PrimeroDetiene(snap, Destino(k))

\* ------------------------------------------------------------------ C7

\* Light record s after one pass of the light-state engine, as section 4.2
\* of the specification words it.
UnTickDespues(s) ==
    IF s.t_en_estado + 1 >= DuracionDe(s)
    THEN [s EXCEPT !.estado = SucesorEnCiclo(s.estado), !.t_en_estado = 0]
    ELSE [s EXCEPT !.t_en_estado = s.t_en_estado + 1]

\* C7: in concurrent mode the program leaves the two sections of a tick only
\* when every iteration of both has run; so between ticks every light has
\* been updated exactly once and every vehicle moved at most one step of its
\* own speed since the tick began, and the snapshot the next tick copies is
\* that fully updated light array.
C7_BarreraEntreTicks ==
    /\ [][(pc = "sections" /\ pc' # "sections") =>
             (sem_hecho = Indices(n_sem) /\ veh_hecho = Indices(n_veh))]_vars
    /\ []((usar_secciones # 0 /\ pc = "loop" /\ i > 0) =>
             /\ \A j \in DOMAIN sem : sem[j] = UnTickDespues(pre_sem[j])
             /\ \A k \in DOMAIN veh :
                   veh[k].pos \in {pre_veh[k].pos, Destino(k)})
    /\ [][(pc' = "sections" /\ pc # "sections" /\ i > 0) =>
             /\ snap' = sem
             /\ \A j \in DOMAIN sem :
                   j \in sem_hecho /\ snap'[j].t_en_estado < DuracionDe(snap'[j])]_vars

\* The second concurrent tick has copied its snapshot, and it holds a phase
\* change that the first tick made.
C7_Witness ==
    /\ pc = "sections"
    /\ i > 0
    /\ sem_hecho = {}
    /\ veh_hecho = {}
    /\ \E j \in DOMAIN snap : snap[j].estado # SemaforoInicial(j, n_sem, road, ciclo).estado

\* ------------------------------------------------------------------ C8

CamposFijosSem(a, b) ==
    /\ a.id = b.id /\ a.pos = b.pos
    /\ a.dur_rojo = b.dur_rojo /\ a.dur_verde = b.dur_verde
    /\ a.dur_amarillo = b.dur_amarillo

CamposFijosVeh(a, b) == a.id = b.id /\ a.vel_max = b.vel_max

\* C8: while simular_dinamico runs, in either mode, no step changes a
\* light's id, position or durations, a vehicle's id or vel_max, or the size
\* of either population; a step that changes a light changes one light only,
\* and neither a vehicle nor the snapshot; a step that changes a vehicle
\* changes one vehicle only, and neither a light nor the snapshot; and the
\* lights keep the id, position and durations inicializar_semaforos gave them.
C8_Marco ==
    /\ [][(Inicializado /\ Inicializado') =>
            /\ n_veh' = n_veh /\ n_sem' = n_sem
            /\ DOMAIN veh' = DOMAIN veh /\ DOMAIN sem' = DOMAIN sem
            /\ \A j \in DOMAIN sem : CamposFijosSem(sem'[j], sem[j])
            /\ \A k \in DOMAIN veh : CamposFijosVeh(veh'[k], veh[k])
            /\ sem' # sem =>
                  /\ veh' = veh /\ snap' = snap
                  /\ Cardinality({j \in DOMAIN sem : sem'[j] # sem[j]}) = 1
            /\ veh' # veh =>
                  /\ sem' = sem /\ snap' = snap
                  /\ Cardinality({k \in DOMAIN veh : veh'[k] # veh[k]}) = 1]_vars
    /\ [](Inicializado =>
            /\ DOMAIN veh = Indices(n_veh) /\ DOMAIN sem = Indices(n_sem)
            /\ \A j \in DOMAIN sem :
                  CamposFijosSem(sem[j], SemaforoInicial(j, n_sem, road, ciclo))
            /\ \A k \in DOMAIN veh : veh[k].id = k /\ veh[k].vel_max \in {1, 2})

\* Within one tick a light has been updated and a vehicle of speed 2 has moved.
C8_Witness ==
    /\ EnTick
    /\ \E j \in DOMAIN sem : sem[j] # pre_sem[j]
    /\ \E k \in DOMAIN veh : veh[k].pos # pre_veh[k].pos /\ veh[k].vel_max = 2

\* ------------------------------------------------------------------ C9

\* The sizing rule alone: any two population sizes, one pass through the
\* head of a tick.
InitHilos ==
    /\ argc = 9 /\ argv = ArgsAusentes
    /\ pc = "loop"
    /\ exit_code = -1
    /\ n_veh \in 0 .. MaxPob
    /\ n_sem \in 0 .. MaxPob
    /\ iters = 1 /\ road = MaxRoad
    /\ delay = 0 /\ ciclo = 9 /\ usar_secciones \in {0, 1} /\ seed = 0
    /\ veh = NoArray /\ sem = NoArray /\ snap = NoArray
    /\ rand_state = 1
    /\ v_etapa = NoArray
    /\ i = 0 /\ hilos = 0
    /\ sem_hecho = {} /\ veh_hecho = {}
    /\ pre_veh = NoArray /\ pre_sem = NoArray
    /\ cnt_act = NoArray /\ cnt_mov = NoArray /\ quietos = NoArray

SpecHilos == InitHilos /\ [][AjustarHilos]_vars

\* The boundary of main alone: every argument, given or defaulted, ranges over
\* negative, zero and positive values; the run stops where the arrays exist.
CmdLinesMain ==
    {<< 4, ArgsAusentes >>}
    \cup { << n, [veh |-> a, sem |-> b, iters |-> c, road |-> d, delay |-> e,
                  ciclo |-> f, secc |-> 1, seed |-> 0] >> :
             n \in {5, 9}, a \in -1 .. 1, b \in -1 .. 1, c \in -1 .. 1,
             d \in {0, 5, 6}, e \in -1 .. MaxArg, f \in -MaxArg .. MaxArg }

InitMain ==
    /\ \E c \in CmdLinesMain : argc = c[1] /\ argv = c[2]
    /\ InitResto

NextMain == MainUso \/ MainParse \/ MainRechaza \/ MainMalloc

SpecMain == InitMain /\ [][NextMain]_vars

\* ceil(n/d) for n >= 0, d > 0: the least q with q*d >= n.
Techo(n, d) == CHOOSE q \in 0 .. n : q * d >= n /\ \A r \in 0 .. n : r * d >= n => q <= r

Max2(a) == IF a >= 2 THEN a ELSE 2

\* C9: the worker count set at the head of a tick is
\* max(2, ceil(n_veh/8) + ceil(n_sem/4)) for all population sizes >= 0; it
\* is 2 for (1,1), 4 for (16,8) and 5 for (17,5), never below 2, and the
\* same whatever the mode.
C9_Hilos ==
    pc = "ajustado" =>
        /\ hilos = Max2(Techo(n_veh, 8) + Techo(n_sem, 4))
        /\ hilos >= 2
        /\ (n_veh = 1 /\ n_sem = 1) => hilos = 2
        /\ (n_veh = 16 /\ n_sem = 8) => hilos = 4
        /\ (n_veh = 17 /\ n_sem = 5) => hilos = 5

\* The worker count of 17 vehicles and 5 lights has been computed.
C9_Witness == pc = "ajustado" /\ n_veh = 17 /\ n_sem = 5 /\ hilos = 5

\* ------------------------------------------------------------------ C10

\* The command line gives a vehicle, light or iteration count <= 0, or a
\* road length <= 5.
ArgsRechazables ==
    /\ argc >= 5
    /\ (argv.veh <= 0 \/ argv.sem <= 0 \/ argv.iters <= 0 \/ argv.road <= 5)

\* C10: with such a command line the program never holds a vehicle array, a
\* light array or a snapshot, never starts initialisation or a tick, and
\* ends with exit code 1.
C10_RechazoSinEstado ==
    ArgsRechazables =>
        /\ veh = NoArray /\ sem = NoArray /\ snap = NoArray
        /\ pre_veh = NoArray /\ pre_sem = NoArray
        /\ cnt_act = NoArray /\ cnt_mov = NoArray
        /\ i = 0 /\ hilos = 0
        /\ pc \in {"main", "validar", "exit"}
        /\ pc = "exit" => exit_code = 1

\* A command line whose only fault is a road of length 5 has been rejected.
C10_Witness ==
    /\ pc = "exit"
    /\ exit_code = 1
    /\ argc >= 5
    /\ argv.veh > 0 /\ argv.sem > 0 /\ argv.iters > 0 /\ argv.road = 5
    /\ veh = NoArray /\ sem = NoArray

\* ------------------------------------------------------------------ C11

\* main has accepted the configuration: it went on past the validation.
Aceptada == pc \notin {"main", "validar", "exit"}

\* main has rejected the configuration it parsed.
Rechazada == pc = "exit" /\ exit_code = 1 /\ argc >= 5

\* C11 as stated: a run is accepted only if road length, both population
\* sizes, the iteration count, the per-tick delay and the total cycle length
\* are all positive.
C11_TodoPositivo ==
    Aceptada =>
        /\ road > 0 /\ n_veh > 0 /\ n_sem > 0 /\ iters > 0
        /\ delay > 0 /\ ciclo > 0

\* C11 amended: a run is accepted exactly when both population sizes and
\* the iteration count are positive and the road is longer than 5 cells; it
\* is rejected with exit code 1 exactly when one of these four fails. The
\* delay and the cycle length take no part in the decision.
C11_ValidaCuatro ==
    /\ Aceptada => n_veh > 0 /\ n_sem > 0 /\ iters > 0 /\ road > 5
    /\ Rechazada => n_veh <= 0 \/ n_sem <= 0 \/ iters <= 0 \/ road <= 5

\* An accepted run whose delay and whose cycle length are not positive.
C11_Witness == Aceptada /\ delay <= 0 /\ ciclo <= 0

\* -------------------------------------------------- initialisation alone

\* main and the two initialisers, up to the call of simular_dinamico: small and
\* crowded roads (more vehicles or lights than cells), every seed.
CmdLinesInicio ==
    {<< 4, ArgsAusentes >>}
    \cup { << 9, [veh |-> a, sem |-> b, iters |-> 1, road |-> d, delay |-> 0,
                  ciclo |-> 5, secc |-> 1, seed |-> h] >> :
             a \in 1 .. (MaxVeh + 1), b \in {1, 3, 8}, d \in 5 .. MaxRoad,
             h \in 0 .. MaxSeed }
    \cup { << 9, [veh |-> 7, sem |-> b, iters |-> 1, road |-> 6, delay |-> 0,
                  ciclo |-> 5, secc |-> 1, seed |-> 0] >> : b \in {1, 3} }

InitInicio ==
    /\ \E c \in CmdLinesInicio : argc = c[1] /\ argv = c[2]
    /\ InitResto

NextInicio ==
    \/ MainUso
    \/ MainParse
    \/ MainRechaza
    \/ MainMalloc
    \/ InicializarVehiculosSrand
    \/ \E k \in Indices(n_veh) : VehJitter(k)
    \/ \E k \in Indices(n_veh) : VehVel(k)
    \/ InicializarVehiculosFin
    \/ InicializarSemaforos

SpecInicio == InitInicio /\ [][NextInicio]_vars

\* ------------------------------------------------------------------ C12

\* The lights have been placed.
SemaforosPuestos == pc = "loop" /\ sem # NoArray

\* The spacing the claims speak of: the road's cells per element, never
\* less than one cell.
Separacion(n) == IF road \div n < 1 THEN 1 ELSE road \div n

\* C12 as stated: every accepted configuration gives both populations a
\* spacing greater than 1.
C12_EspacioMayorQueUno ==
    Aceptada => Espacio(road, n_veh) > 1 /\ Espacio(road, n_sem) > 1

\* C12 amended: acceptance does not look at the spacing; for every accepted
\* configuration the spacing of each population is the road's cells per
\* element or 1, whichever is larger, and light j is placed at j times that
\* spacing, wrapped around the road.
C12_EspacioAlMenosUno ==
    /\ Aceptada =>
        /\ Espacio(road, n_veh) = Separacion(n_veh)
        /\ Espacio(road, n_sem) = Separacion(n_sem)
    /\ SemaforosPuestos =>
        \A j \in Indices(n_sem) : sem[j].pos = (j * Separacion(n_sem)) % road

\* An accepted run with more lights than cells, its lights placed one cell
\* apart.
C12_Witness ==
    /\ SemaforosPuestos
    /\ n_sem > road
    /\ Espacio(road, n_sem) = 1
    /\ sem[1].pos = 1

\* ------------------------------------------------------------------ C13

\* The vehicles have all been initialised.
VehiculosPuestos ==
    pc \in {"inicializar_semaforos", "loop"} /\ veh # NoArray

\* What the loop of inicializar_vehiculos yields when its iterations draw
\* from the seeded stream one after the other, in index order: vehicles k
\* and up, the stream being in state st.
RECURSIVE EnOrden(_, _)
EnOrden(k, st) ==
    IF k >= n_veh THEN << >>
    ELSE LET espacio == Espacio(road, n_veh)
             r1 == IF espacio > 1 THEN Rand(st) ELSE st
             jitter == IF espacio > 1 THEN r1 % espacio ELSE 0
             r2 == Rand(r1)
         IN  << [id |-> k,
                 pos |-> mod_pos(k * espacio + jitter, road),
                 vel_max |-> 1 + (r2 % 2)] >> \o EnOrden(k + 1, r2)

\* C13: for one seed, count and road length every execution of
\* inicializar_vehiculos gives every vehicle the same position and the same
\* maximum speed (those of the execution that draws in index order), and
\* inicializar_semaforos gives every light the same record.
C13_Determinista ==
    /\ VehiculosPuestos =>
        \A k \in Indices(n_veh) : veh[k] = EnOrden(0, Srand(seed))[k + 1]
    /\ SemaforosPuestos =>
        \A j \in Indices(n_sem) : sem[j] = SemaforoInicial(j, n_sem, road, ciclo)

\* ------------------------------------------------------------------ C14

\* Every cycle length from negative to longer than ten ticks, on an otherwise
\* fixed small run; the run stops where simular_dinamico is called.
CmdLinesCiclo ==
    {<< 4, ArgsAusentes >>}
    \cup { << 9, [veh |-> 1, sem |-> b, iters |-> 1, road |-> d, delay |-> 0,
                  ciclo |-> f, secc |-> 1, seed |-> 0] >> :
             b \in 0 .. MaxSem, d \in 6 .. MaxRoad, f \in -MaxCiclo .. MaxCiclo }

InitCiclo ==
    /\ \E c \in CmdLinesCiclo : argc = c[1] /\ argv = c[2]
    /\ InitResto

SpecCiclo == InitCiclo /\ [][NextInicio]_vars

Max1(d) == IF d >= 1 THEN d ELSE 1

SumaDuraciones(s) == s.dur_verde + s.dur_amarillo + s.dur_rojo

\* Light record s carries the three durations the rule gives for cycle
\* length c, each at least 1.
DuracionesSegunRegla(s, c) ==
    /\ s.dur_verde = Max1(c \div 2)
    /\ s.dur_amarillo = Max1(c \div 5)
    /\ s.dur_rojo = Max1(c - (c \div 2) - (c \div 5))
    /\ s.dur_verde >= 1 /\ s.dur_amarillo >= 1 /\ s.dur_rojo >= 1

\* C14 as stated: every light has the durations of the rule, each at least
\* 1, for every integer cycle length, and they sum to exactly the cycle
\* length.
C14_SumaExacta ==
    SemaforosPuestos =>
        \A j \in Indices(n_sem) :
            /\ DuracionesSegunRegla(sem[j], ciclo)
            /\ SumaDuraciones(sem[j]) = ciclo

\* C14 amended: every light has the durations of the rule, each at least 1,
\* for every integer cycle length; they sum to the cycle length when it is at
\* least 5, and to more than the cycle length (3 or one more than it,
\* whichever is larger) when it is less than 5.
C14_SumaDesdeCinco ==
    SemaforosPuestos =>
        \A j \in Indices(n_sem) :
            /\ DuracionesSegunRegla(sem[j], ciclo)
            /\ ciclo >= 5 => SumaDuraciones(sem[j]) = ciclo
            /\ ciclo < 5 =>
                /\ SumaDuraciones(sem[j]) > ciclo
                /\ SumaDuraciones(sem[j]) = (IF ciclo + 1 > 3 THEN ciclo + 1 ELSE 3)

\* Lights set up for a cycle of 4 ticks: green 2, yellow 1, red 2.
C14_Witness ==
    /\ SemaforosPuestos
    /\ ciclo = 4
    /\ sem[0].dur_verde = 2 /\ sem[0].dur_amarillo = 1 /\ sem[0].dur_rojo = 2

\* ------------------------------------------------------------------ C15

\* The run has ended normally.
Terminada == pc = "exit" /\ exit_code = 0

\* Every light has been through n calls of actualizar_semaforos and every
\* vehicle through n calls of mover_vehiculos.
TodosAvanzados(n) ==
    /\ \A j \in Indices(n_sem) : cnt_act[j] = n
    /\ \A k \in Indices(n_veh) : cnt_mov[k] = n

\* C15: an accepted run of N ticks ends, in either mode, and only after N
\* ticks: between ticks every light and every vehicle has been advanced once
\* per tick done, the tick count goes up by one at a time and never beyond
\* N, and when the run has ended every light has been advanced exactly N
\* times and every vehicle moved exactly N times.
C15_ExactamenteNTicks ==
    /\ [](pc = "loop" => i <= iters /\ TodosAvanzados(i))
    /\ [](Terminada => i = iters /\ TodosAvanzados(iters))
    /\ [][i' = i \/ (i' = i + 1 /\ i < iters)]_vars
    /\ (Aceptada ~> Terminada)

\* A run of three ticks, in the mode with sections, that has ended with its
\* two lights and its vehicle advanced three times each.
C15_Witness ==
    /\ Terminada
    /\ iters = 3 /\ usar_secciones = 1 /\ n_sem = 2 /\ n_veh = 1
    /\ TodosAvanzados(3)

\* ------------------------------------------------------------------ C16

\* Runs longer than the longest cycle, every light count, both modes.
CmdLinesPeriodo ==
    {<< 4, ArgsAusentes >>}
    \cup { << 9, [veh |-> 1, sem |-> b, iters |-> MaxItersPeriodo, road |-> MaxRoad,
                  delay |-> 0, ciclo |-> f, secc |-> g, seed |-> 0] >> :
             b \in 0 .. MaxSem, f \in Ciclos \cup {3, 10}, g \in {0, 1} }

InitPeriodo ==
    /\ \E c \in CmdLinesPeriodo : argc = c[1] /\ argv = c[2]
    /\ InitResto

SpecPeriodo == InitPeriodo /\ [][Next]_vars

\* The phase light j is initialised in.
EstadoInicial(j) == IF j % 2 = 0 THEN VERDE ELSE ROJO

\* The duration record s gives to phase e.
DuracionDeFase(s, e) ==
    IF e = VERDE THEN s.dur_verde
    ELSE IF e = AMARILLO THEN s.dur_amarillo
    ELSE s.dur_rojo

\* Phase and ticks in phase, c calls of actualizar_semaforos after a light
\* with the durations of s entered phase e: the light is in e for the first
\* duration(e) calls, in e's successor for the next duration(successor)
\* calls, and so on round the cycle.
FaseTras(s, e, c) ==
    LET e2 == SucesorEnCiclo(e)
        e3 == SucesorEnCiclo(e2)
        d1 == DuracionDeFase(s, e)
        d2 == DuracionDeFase(s, e2)
        r == c % (s.dur_verde + s.dur_amarillo + s.dur_rojo)
    IN  IF r < d1 THEN << e, r >>
        ELSE IF r < d1 + d2 THEN << e2, r - d1 >>
        ELSE << e3, r - d1 - d2 >>

\* C16: a light stays in a phase for exactly that phase's duration in calls
\* of actualizar_semaforos and leaves it on the last of them, so its phase
\* and counter after c calls are those of c modulo the sum of the three
\* durations; a light initialised GREEN with durations 5, 2, 3 is GREEN
\* before call 5, YELLOW after calls 5 and 6, RED first after call 7 and
\* until call 9, and GREEN again after call 10.
C16_FasePeriodica ==
    Inicializado =>
        /\ \A j \in DOMAIN sem :
              << sem[j].estado, sem[j].t_en_estado >>
                  = FaseTras(sem[j], EstadoInicial(j), cnt_act[j])
        /\ (ciclo = 10 /\ 0 \in DOMAIN sem) =>
              /\ sem[0].dur_verde = 5 /\ sem[0].dur_amarillo = 2 /\ sem[0].dur_rojo = 3
              /\ cnt_act[0] < 5 => sem[0].estado = VERDE
              /\ cnt_act[0] \in {5, 6} => sem[0].estado = AMARILLO
              /\ cnt_act[0] \in {7, 8, 9} => sem[0].estado = ROJO
              /\ cnt_act[0] = 10 => sem[0].estado = VERDE /\ sem[0].t_en_estado = 0

\* A light initialised GREEN with durations 5, 2, 3 after its tenth call,
\* GREEN again.
C16_Witness ==
    /\ Inicializado
    /\ ciclo = 10
    /\ cnt_act[0] = 10
    /\ sem[0].estado = VERDE

\* ------------------------------------------------------------------ C17

\* More lights than cells, for long enough that the two lights of cell 0
\* (light 0, initialised GREEN, and light 7, initialised RED) show every
\* combination of phases; one vehicle, both modes, every seed.
CmdLinesSolapadasLargas ==
    {<< 4, ArgsAusentes >>}
    \cup { << 9, [veh |-> a, sem |-> 8, iters |-> MaxItersSolapados, road |-> 7,
                  delay |-> 0, ciclo |-> 5, secc |-> g, seed |-> h] >> :
             a \in {0, 1}, g \in {0, 1}, h \in 0 .. MaxSeed }

InitSolapadas ==
    /\ \E c \in CmdLinesSolapadasLargas : argc = c[1] /\ argv = c[2]
    /\ InitResto

SpecSolapadas == InitSolapadas /\ [][Next]_vars

\* Vehicle k has been moved in this tick and the snapshot holds two or more
\* lights at its destination.
VariosEnDestino(k) ==
    /\ Moviendo
    /\ k \in veh_hecho
    /\ Cardinality(SemaforosEn(snap, Destino(k))) >= 2

\* C17: when the snapshot holds two or more lights at a vehicle's
\* destination, the vehicle stays where it was if and only if the one of
\* them with the lowest index is RED or YELLOW, and is at its destination
\* otherwise, whatever the phases of the others.
C17_PrimeroDeVarios ==
    \A k \in Indices(n_veh) :
        VariosEnDestino(k) =>
            LET primero == Minimo(SemaforosEn(snap, Destino(k)))
            IN  /\ (veh[k].pos = pre_veh[k].pos) <=> Detiene(snap[primero].estado)
                /\ (veh[k].pos # pre_veh[k].pos) => veh[k].pos = Destino(k)

\* Two lights at the destination, the first RED and the second GREEN: the
\* vehicle has stayed.
C17_Witness ==
    \E k \in Indices(n_veh) :
        /\ VariosEnDestino(k)
        /\ LET en == SemaforosEn(snap, Destino(k))
           IN  /\ snap[Minimo(en)].estado = ROJO
               /\ \E j \in en : j # Minimo(en) /\ snap[j].estado = VERDE
        /\ veh[k].pos = pre_veh[k].pos

\* ------------------------------------------------------------------ C18

\* The snapshot holds a RED or YELLOW light on one of the cells vehicle k's
\* step would enter: the cells after its pre-tick position up to its
\* destination.
RojoEnElCamino(k) ==
    \E d \in 1 .. pre_veh[k].vel_max :
        \E j \in DOMAIN snap :
            /\ snap[j].pos = (pre_veh[k].pos + d) % road
            /\ Detiene(snap[j].estado)

\* C18: in no tick does a vehicle's move carry it onto or past a cell holding
\* a RED or YELLOW light of the snapshot: a vehicle with such a light at its
\* destination or on a cell before it stays where it was, and any other
\* vehicle advances by its maximum speed.
C18_NoPasaEnRojo ==
    Moviendo =>
        \A k \in veh_hecho :
            veh[k].pos = IF RojoEnElCamino(k) THEN pre_veh[k].pos ELSE Destino(k)

\* ------------------------------------------------------------------ C19

\* C19: after inicializar_vehiculos on an accepted configuration, whatever
\* the stream yields, no two distinct vehicles have the same position and
\* every maximum speed is 1 or 2.
C19_SinSolape ==
    VehiculosPuestos =>
        /\ \A k1, k2 \in Indices(n_veh) : k1 # k2 => veh[k1].pos # veh[k2].pos
        /\ \A k \in Indices(n_veh) : veh[k].vel_max \in {1, 2}

\* ------------------------------------------------------------------ C20

\* Light record s after k passes of the light-state engine.
RECURSIVE TrasTicks(_, _)
TrasTicks(s, k) == IF k = 0 THEN s ELSE TrasTicks(UnTickDespues(s), k - 1)

\* C20: at every moment of a run, in either mode and whatever the vehicles,
\* every light's record is the one its own initial record becomes after as
\* many passes of the light-state engine as the light has been through; so
\* between ticks, after k ticks, it depends on that light's initial record
\* and on k alone.
C20_SemaforosIndependientes ==
    Inicializado =>
        \A j \in Indices(n_sem) :
            /\ sem[j] = TrasTicks(SemaforoInicial(j, n_sem, road, ciclo), cnt_act[j])
            /\ pc = "loop" => cnt_act[j] = i

\* Two ticks done in a run with two lights and two vehicles: both lights
\* have changed phase, each on its own count.
C20_Witness ==
    /\ pc = "loop" /\ i = 2
    /\ n_sem = 2 /\ n_veh = 2
    /\ sem[0].estado = AMARILLO /\ sem[1].estado = VERDE
    /\ cnt_act[0] = 2 /\ cnt_act[1] = 2

\* ------------------------------------------------------------------ C21

\* Runs long enough for a vehicle to wait out the YELLOW and the RED of the
\* light ahead of it and move on: up to two vehicles and two lights on 6 or
\* 7 cells, every seed, both modes.
CmdLinesBloqueo ==
    {<< 4, ArgsAusentes >>}
    \cup { << 9, [veh |-> a, sem |-> b, iters |-> MaxItersBloqueo, road |-> d,
                  delay |-> 0, ciclo |-> f, secc |-> g, seed |-> h] >> :
             a \in {0, 1, 2}, b \in {1, 2}, d \in {6, 7},
             f \in {3, 5}, g \in {0, 1}, h \in 0 .. MaxSeed }

InitBloqueo ==
    /\ \E c \in CmdLinesBloqueo : argc = c[1] /\ argv = c[2]
    /\ InitResto

\* The threads of a parallel region and main itself always make progress.
SpecBloqueo == InitBloqueo /\ [][Next]_vars /\ WF_vars(Next)

\* The longest a light keeps a vehicle waiting: its YELLOW and its RED.
EsperaMaxima(s) == s.dur_amarillo + s.dur_rojo

\* The light that decides for a vehicle standing at cell p with speed v, if
\* there is one: the lowest-index light at the vehicle's destination.
SemaforosDelante(k) ==
    SemaforosEn(sem, (veh[k].pos + veh[k].vel_max) % road)

\* Calls of mover_vehiculos that vehicle k still has ahead of it in this run.
RestantesMov(k) == iters - i - (IF EnTick /\ k \in veh_hecho THEN 1 ELSE 0)

\* Vehicle k stands at cell p and the run has more ticks left for it than
\* the longest wait at a light.
EnCeldaConTiempo(k, p) ==
    /\ Inicializado
    /\ k \in DOMAIN veh
    /\ veh[k].pos = p
    /\ RestantesMov(k) > EsperaMaxima(sem[0])

\* C21: no vehicle is held for ever.  A vehicle that has kept its cell for
\* one or more ticks in a row has a light at its destination and has waited
\* at most that light's YELLOW plus RED durations; and a vehicle standing on
\* a cell, in a run with more ticks left than that wait, gets off the cell.
C21_NoBloqueadoSiempre ==
    /\ [](Inicializado =>
            \A k \in Indices(n_veh) :
                quietos[k] > 0 =>
                    /\ SemaforosDelante(k) # {}
                    /\ quietos[k] <= EsperaMaxima(sem[Minimo(SemaforosDelante(k))]))
    /\ \A k \in Indices(MaxVeh) : \A p \in 0 .. (MaxRoad - 1) :
          EnCeldaConTiempo(k, p) ~> (k \in DOMAIN veh /\ veh[k].pos # p)

\* A vehicle that has waited out the whole YELLOW and RED of the light at its
\* destination, with ticks left to move on.
C21_Witness ==
    \E k \in Indices(n_veh) :
        /\ Inicializado
        /\ SemaforosDelante(k) # {}
        /\ quietos[k] = EsperaMaxima(sem[Minimo(SemaforosDelante(k))])
        /\ RestantesMov(k) >= 1

====
